---- MODULE Spec2Model ----
(***************************************************************************)
(* dnsdiag.py: a DNS consistency auditor.  main() loads a configuration,   *)
(* selects a resolver (test_all_resolvers), and run() executes every test  *)
(* of type 'query' with test_dns_query: resolve the nameserver hostnames   *)
(* (name2ip), query every resulting address for every record type, compare *)
(* the answers across addresses, and compare the whole result with the     *)
(* stored one (dnsdiag-report-<name>.json).                                *)
(*                                                                         *)
(* Strings that the program only orders and compares (hostnames, IP        *)
(* addresses, record texts) are numbered 1..N in their lexicographic      *)
(* order, so Python's comparison of two such strings is < on the numbers.  *)
(* A Python dict is a function: dict equality ignores insertion order.     *)
(***************************************************************************)
EXTENDS Integers, Sequences, FiniteSets, Bags, TLC

\* ---------------------------------------------------------------- bounds
NumHosts == 2        \* distinct nameserver hostnames
NumAddrs == 2        \* distinct IP addresses the resolver can return
NumRecords == 2      \* distinct record texts a nameserver can return
MaxResolvers == 2    \* length of the configured resolver list
MaxClock == 1        \* the clock (seconds) runs over 0..MaxClock
MaxRuns == 3         \* invocations of main() against the same directory
MaxReports == 3      \* calls of store_report followed line by line
MaxSeq == 1          \* largest suffix of a report file found at the start

\* name2ip: attempts = 10
Attempts == 10

Hosts == 1..NumHosts
Addrs == 1..NumAddrs
Records == 1..NumRecords

\* ------------------------------------------------------- sequence helpers
Range(s) == {s[i] : i \in DOMAIN s}

\* All sequences over S of length 0..n.
SeqsUpTo(S, n) == UNION {[1..k -> S] : k \in 0..n}

\* Sequences over S without a repeated element (an RRset holds no rdata twice).
DistinctSeqs(S) == {s \in SeqsUpTo(S, Cardinality(S)) :
                      \A i, j \in DOMAIN s : i # j => s[i] # s[j]}

RECURSIVE Insert(_, _)
Insert(x, s) == IF s = <<>> THEN <<x>>
                ELSE IF x <= Head(s) THEN <<x>> \o s
                ELSE <<Head(s)>> \o Insert(x, Tail(s))

\* Variant: the list is left in arrival order.
list_sort_missing(s) == s

\* list.sort(): ascending, duplicates kept.
RECURSIVE list_sort(_)
list_sort(s) == IF s = <<>> THEN <<>> ELSE Insert(Head(s), list_sort(Tail(s)))

RECURSIVE SeqToBag(_)
SeqToBag(s) == IF s = <<>> THEN EmptyBag
               ELSE SeqToBag(Tail(s)) (+) SetToBag({Head(s)})

IsSorted(s) == \A i \in 1..(Len(s) - 1) : s[i] <= s[i + 1]

\* ------------------------------------------------------------ the config
\* A resolver of config['resolvers']; dnssec FALSE also stands for an absent key
\* (resolver.get('dnssec', False)).
R1 == [ip |-> 1, type |-> "udp", dnssec |-> FALSE]
R2 == [ip |-> 2, type |-> "tcp", dnssec |-> TRUE]
Resolvers == {R1, R2}
\* Python's None for config['tested_resolver'].
None == [ip |-> 0, type |-> "none", dnssec |-> FALSE]

Test(name, type, nss, types) ==
  [name |-> name, type |-> type, query_name |-> "example.test",
   query_types |-> types, nameservers |-> nss, query_protocol |-> "udp"]

\* A dict with key k set to v.
Put(d, k, v) == [x \in DOMAIN d \cup {k} |-> IF x = k THEN v ELSE d[x]]
EmptyDict == <<>>

VARIABLES
  yaml,             \* the configuration file, as load_config returns it
  config,           \* self.config: resolvers, dns, tested_resolver
  pc,               \* where main() is: "main", "run", "name2ip", "query",
                    \* "verify", "exit"
  error,            \* the exception that ended main(), or "none"
  testIdx,          \* run: position in `for test in tests`
  nsIdx,            \* test_dns_query: position in `for ns in nameservers`
  attempts,         \* name2ip: attempts
  nameservers_ips,  \* test_dns_query: nameservers_ips
  answers,          \* test_dns_query: answers
  ti,               \* position in `for query_type in query_types` (line 188)
  ai,               \* position in `for ns_ip in nameservers_ips` (line 190)
  baseline,         \* files dnsdiag-report-<name>.json: name -> JSON text
  archive,          \* files dnsdiag-report-<name>-<time>.json
  reports,          \* files dnsdiag-report-<time>[-NNN].txt
  now,              \* the clock, in seconds
  runs,             \* invocations of main() so far
  probed,           \* history: <<index, result>> of each test_resolver call
  nqueries,         \* history: queries sent by the current name2ip call
  sent,             \* history: <<type, address>> of each fan-out query of the test
  lastKind,         \* history: how the last step's fan-out query ended, or "none"
  received,         \* history: the answers of the current test as they arrived
  emitted,          \* history: the reports store_report got during the test
  hadBaseline,      \* history: whether the test found a stored result
  persisted,        \* history: every <<name, text>> written as a baseline
  lastA,            \* history: how the last step's name2ip query ended, or NoOutcome
  printed,          \* history: the record types line 219 printed for in the test
  fname,            \* store_report: fname
  seq,              \* store_report: seq
  details           \* store_report: details

vars == <<yaml, config, pc, error, testIdx, nsIdx, attempts, nameservers_ips,
          answers, ti, ai, baseline, archive, reports, now, runs, probed,
          nqueries,
          sent, lastKind, received, emitted, hadBaseline, persisted, lastA,
          printed, fname, seq, details>>

progVars == <<config, pc, error, testIdx, nsIdx, attempts, nameservers_ips,
              answers, ti, ai>>
files == <<baseline, archive, reports>>
history == <<probed, nqueries, sent, lastKind, received, emitted, hadBaseline, persisted,
             lastA, printed>>
\* store_report is taken in one step inside test_dns_query; its locals are used
\* where it is followed line by line.
sink == <<fname, seq, details>>

NoAnswers == [nameservers |-> [names |-> <<>>], nameservers_ips |-> [ips |-> <<>>]]
NoReceived == [names |-> <<>>, ips |-> <<>>, rr |-> EmptyDict]
NoOutcome == [kind |-> "none", a |-> <<>>]
NoName == <<-1, -1>>

\* ------------------------------------------------------------------ JSON
\* dict(sorted(answers.items())): the keys in code point order.
KeyOrder == <<"A", "MX", "nameservers", "nameservers_ips">>
AddrOrder == [i \in 1..NumAddrs |-> i]

\* The items of dict d whose keys are in the sequence keys, in that order.
Items(d, keys) ==
  LET ks == SelectSeq(keys, LAMBDA k : k \in DOMAIN d)
  IN  [i \in DOMAIN ks |-> <<ks[i], d[ks[i]]>>]

\* json.dump(answers, f): the object as a list of key/value members, each
\* value again an object given by its members.
json_dump(ans) ==
  LET ks == SelectSeq(KeyOrder, LAMBDA k : k \in DOMAIN ans)
      inner(k) == IF k = "nameservers" THEN <<<<"names", ans[k].names>>>>
                  ELSE IF k = "nameservers_ips" THEN <<<<"ips", ans[k].ips>>>>
                  ELSE Items(ans[k], AddrOrder)
  IN  [i \in DOMAIN ks |-> <<ks[i], inner(ks[i])>>]

\* The dict of a member list.
FromItems(items) ==
  [k \in {items[i][1] : i \in DOMAIN items} |->
     items[CHOOSE i \in DOMAIN items : items[i][1] = k][2]]

\* json.load(f)
json_load(text) ==
  LET top == FromItems(text)
  IN  [k \in DOMAIN top |-> FromItems(top[k])]

\* --------------------------------------------------------- store_report
\* dnsdiag-report-<time>.txt is <<time, -1>>; dnsdiag-report-<time>-NNN.txt is
\* <<time, N>>.
RECURSIVE free_seq(_, _, _)
free_seq(existing, t, n) ==
  IF <<t, n>> \in existing THEN free_seq(existing, t, n + 1) ELSE n

report_fname(existing, t) ==
  IF <<t, -1>> \in existing THEN <<t, free_seq(existing, t, 0)>> ELSE <<t, -1>>

\* store_report(details) at time t: the report files afterwards.
store_report(rfiles, report, t) ==
  Put(rfiles, report_fname(DOMAIN rfiles, t), report)

RECURSIVE store_reports(_, _, _)
store_reports(rfiles, rs, t) ==
  IF rs = <<>> THEN rfiles
  ELSE store_reports(store_report(rfiles, Head(rs), t), Tail(rs), t)

\* ---------------------------------------------------- test_all_resolvers
\* Variant: the loop goes on to the next resolver when one fails.
RECURSIVE probe_from(_, _, _)
probe_from(resolvers, healthy, i) ==
  IF i > Len(resolvers) THEN [probed |-> <<>>, tested |-> None]
  ELSE IF healthy[i] THEN [probed |-> <<<<i, TRUE>>>>, tested |-> resolvers[i]]
  ELSE LET rest == probe_from(resolvers, healthy, i + 1)
       IN  [probed |-> <<<<i, FALSE>>>> \o rest.probed, tested |-> rest.tested]

select_resolver_fallback(resolvers, healthy) == probe_from(resolvers, healthy, 1)

\* The loop over the resolvers: healthy[i] is what test_resolver returns for
\* resolvers[i] when it is called.  Both paths of the loop body end in break.
select_resolver(resolvers, healthy) ==
  IF resolvers = <<>> THEN [probed |-> <<>>, tested |-> None]
  ELSE [probed |-> <<<<1, healthy[1]>>>>,
        tested |-> IF healthy[1] THEN resolvers[1] ELSE None]

\* Variant: no exception when no resolver was chosen.
after_selection_no_raise(tested) == [pc |-> "run", error |-> "none"]

\* raise Exception('No working resolver found') ends main(): run() is not called.
after_selection(tested) ==
  IF tested = None THEN [pc |-> "exit", error |-> "NoWorkingResolver"]
  ELSE [pc |-> "run", error |-> "none"]

test_all_resolvers ==
  /\ pc = "main"
  /\ \E healthy \in [DOMAIN config.resolvers -> BOOLEAN] :
       LET r == select_resolver(config.resolvers, healthy)
           next == after_selection(r.tested)
       IN  /\ config' = [config EXCEPT !.tested_resolver = r.tested]
           /\ probed' = r.probed
           /\ pc' = next.pc
           /\ error' = next.error
  /\ UNCHANGED <<yaml, testIdx, nsIdx, attempts, nameservers_ips, answers, ti, ai,
                 baseline, archive, reports, now, runs, nqueries, sent, lastKind,
                 received, emitted, hadBaseline, persisted, lastA, printed, sink>>

\* --------------------------------------------------------- test_dns_query
\* Variant: line 185 left out.
fanout_ips_unsorted(ips) == ips

\* Lines 178-185: names and ips sorted in place.  answers['nameservers']['names']
\* is the list test['nameservers'] itself, so the test of the config is sorted too.
sorted_names(test) == list_sort(test.nameservers)
fanout_ips(ips) == list_sort(ips)

\* Leaving the loop over the nameservers with the addresses ips (line 175 on).
\* With no address or no query type the loops of lines 188-209 send nothing.
EnterFanout(i, ips) ==
  LET test == config.dns[i]
      names == sorted_names(test)
      sips == fanout_ips(ips)
      base == [nameservers |-> [names |-> names],
               nameservers_ips |-> [ips |-> sips]]
      nothing == sips = <<>> \/ test.query_types = <<>>
  IN  /\ config' = [config EXCEPT !.dns[i].nameservers = names]
      /\ nameservers_ips' = sips
      /\ received' = [names |-> test.nameservers, ips |-> ips, rr |-> EmptyDict]
      /\ answers' = IF nothing
                    THEN [k \in DOMAIN base \cup Range(test.query_types) |->
                            IF k \in DOMAIN base THEN base[k] ELSE EmptyDict]
                    ELSE base
      /\ pc' = IF nothing THEN "verify" ELSE "query"
      /\ ti' = IF nothing THEN 0 ELSE 1
      /\ ai' = IF nothing THEN 0 ELSE 1
      /\ nsIdx' = 0
      /\ attempts' = 0
      /\ nqueries' = 0

\* run: `for test in tests`, and the start of test_dns_query (lines 161-165).
run ==
  /\ pc \in {"run", "tested"}
  /\ LET i == testIdx + 1
     IN  IF i > Len(config.dns)
         THEN /\ pc' = "exit"
              /\ UNCHANGED <<config, testIdx, nsIdx, attempts, nameservers_ips,
                             answers, ti, ai, nqueries, sent, received, emitted,
                             hadBaseline, printed>>
         ELSE /\ testIdx' = i
              /\ sent' = <<>>
              /\ emitted' = <<>>
              /\ printed' = <<>>
              /\ hadBaseline' = FALSE
              /\ IF config.dns[i].type # "query"
                 THEN /\ pc' = "run"
                      /\ nameservers_ips' = <<>>
                      /\ answers' = NoAnswers
                      /\ received' = NoReceived
                      /\ UNCHANGED <<config, nsIdx, attempts, ti, ai, nqueries>>
                 ELSE IF config.dns[i].nameservers = <<>>
                 THEN EnterFanout(i, <<>>)
                 ELSE /\ pc' = "name2ip"
                      /\ nsIdx' = 1
                      /\ attempts' = Attempts
                      /\ nqueries' = 0
                      /\ nameservers_ips' = <<>>
                      /\ answers' = NoAnswers
                      /\ received' = NoReceived
                      /\ UNCHANGED <<config, ti, ai>>
  /\ lastKind' = "none"
  /\ lastA' = NoOutcome
  /\ UNCHANGED <<yaml, error, baseline, archive, reports, now, runs, probed, persisted,
                 sink>>

\* ---------------------------------------------------------------- name2ip
\* What one query of name2ip (lines 108-129) can do: a response whose answer
\* section holds the A records a (none for NXDOMAIN or NODATA) and whose EDNS
\* option list is empty or not; dns.exception.DNSException; another exception.
NameOutcomes ==
  [kind : {"response"}, a : DistinctSeqs(Addrs), options : BOOLEAN]
    \cup [kind : {"DNSException", "Exception"}, a : {<<>>}, options : {FALSE}]

\* Lines 131-137 with retanswer empty.  bound: `response` was assigned, which
\* needs a query that returned; options: response.options is not empty, and a
\* list of options has no to_text().
name2ip_raise(dnssec_opt, bound, options) ==
  IF dnssec_opt
  THEN IF ~bound THEN "UnboundLocalError"
       ELSE IF options THEN "AttributeError"
       ELSE "NoARecord"
  ELSE "NoARecord"

\* Variant: the loop is not left after a response.
name2ip_retry_no_break(out, att) ==
  out.kind \in {"DNSException", "response"} /\ att - 1 # 0

\* Variant: every exception is retried.
name2ip_retry_any_error(out, att) ==
  out.kind \in {"DNSException", "Exception"} /\ att - 1 # 0

\* Whether `while True` goes round again after a query that ended as out with
\* att attempts left: only the DNSException handler stays in the loop, until
\* attempts reaches 0 (lines 121-129).
name2ip_retry(out, att) == out.kind = "DNSException" /\ att - 1 # 0

\* retanswer after a query that ended as out (lines 117-120).
retanswer(out) == out.a

\* Variant: an empty list is returned like any other.
no_record_returned(r) == FALSE

\* Line 131: `if not retanswer`
no_record(r) == r = <<>>

\* One pass of `while True` of name2ip for nameservers[nsIdx], with what follows
\* the loop when it is left, and line 173 of the caller.
name2ip ==
  /\ pc = "name2ip"
  /\ \E out \in NameOutcomes :
       LET test == config.dns[testIdx]
           dnssec_opt == config.tested_resolver.dnssec
           retry == name2ip_retry(out, attempts)
           failed == ~retry /\ no_record(retanswer(out))
       IN  /\ lastA' = [kind |-> out.kind, a |-> out.a]
           /\ IF retry
              THEN /\ attempts' = attempts - 1
                   /\ nqueries' = nqueries + 1
                   /\ UNCHANGED <<config, pc, error, nsIdx, nameservers_ips, answers,
                                  ti, ai, received>>
              ELSE IF failed
              THEN /\ pc' = "exit"
                   /\ error' = name2ip_raise(dnssec_opt, out.kind = "response", out.options)
                   /\ attempts' = IF out.kind = "DNSException" THEN attempts - 1 ELSE attempts
                   /\ nqueries' = nqueries + 1
                   /\ UNCHANGED <<config, nsIdx, nameservers_ips, answers, ti, ai, received>>
              ELSE IF nsIdx < Len(test.nameservers)
              THEN /\ nameservers_ips' = nameservers_ips \o retanswer(out)
                   /\ nsIdx' = nsIdx + 1
                   /\ attempts' = Attempts
                   /\ nqueries' = 0
                   /\ UNCHANGED <<config, pc, error, answers, ti, ai, received>>
              ELSE /\ EnterFanout(testIdx, nameservers_ips \o retanswer(out))
                   /\ UNCHANGED error
  /\ UNCHANGED <<yaml, testIdx, baseline, archive, reports, now, runs, probed, sent,
                 lastKind, emitted, hadBaseline, persisted, printed, sink>>

\* ---------------------------------------------------- the fan-out queries
\* What one query of lines 194-207 can do: a response whose records, as
\* '<type> <rdata>' texts, are rr; or dns.exception.DNSException (a timeout is one).
QueryOutcomes ==
  [kind : {"response"}, rr : DistinctSeqs(Records)]
    \cup [kind : {"DNSException"}, rr : {<<>>}]

\* answers[query_type][ns_ip] after the body of the try: emptied at line 192,
\* then one append per record of the response.
slot_after(out) == IF out.kind = "DNSException" THEN <<>> ELSE out.rr

\* Variant: a DNSException of a fan-out query is not caught.
query_next_abort(out, last) ==
  IF out.kind = "DNSException" THEN "exit" ELSE IF last THEN "verify" ELSE "query"

\* Where test_dns_query is after a query: line 208 only prints, the loops go on.
query_next(out, last) == IF last THEN "verify" ELSE "query"

\* One pass of the inner loop (lines 190-209) for query_types[ti] and
\* nameservers_ips[ai]; line 189 before the first address of a type.
fanout_query ==
  /\ pc = "query"
  /\ \E out \in QueryOutcomes :
       LET test == config.dns[testIdx]
           query_type == test.query_types[ti]
           ns_ip == nameservers_ips[ai]
           a0 == IF ai = 1 THEN Put(answers, query_type, EmptyDict) ELSE answers
           lastAddr == ai = Len(nameservers_ips)
           last == lastAddr /\ ti = Len(test.query_types)
       IN  /\ answers' = Put(a0, query_type, Put(a0[query_type], ns_ip, slot_after(out)))
           /\ sent' = Append(sent, <<query_type, ns_ip>>)
           /\ lastKind' = out.kind
           /\ pc' = query_next(out, last)
           /\ ai' = IF last THEN 0 ELSE IF lastAddr THEN 1 ELSE ai + 1
           /\ ti' = IF last THEN 0 ELSE IF lastAddr THEN ti + 1 ELSE ti
  /\ UNCHANGED <<yaml, config, error, testIdx, nsIdx, attempts, nameservers_ips,
                 baseline, archive, reports, now, runs, probed, nqueries, received,
                 emitted, hadBaseline, persisted, printed, sink>>
  /\ lastA' = NoOutcome

\* ------------------------------------------------- the consistency check
inconsistent_report(test, query_type, ns_ip, reference, d) ==
  [kind |-> "inconsistent", query_name |-> test.query_name,
   query_type |-> query_type, ns_ip |-> ns_ip, reference |-> reference,
   expected |-> d[reference], got |-> d[ns_ip]]

\* Line 227: the two lists differ.
differs(got, expected) == got # expected

\* Variant: the last address of the list is the reference.
reference_last(ips) == ips[Len(ips)]

\* nameservers_ips[0], the address every list is compared with.
reference(ips) == ips[1]

\* Variant: a type is skipped when no address returned a record.
no_answers_any(d) == \A a \in DOMAIN d : d[a] = <<>>

\* Line 218, `not answers[query_type]`: the dict of the type has no key.
no_answers(d) == DOMAIN d = {}

\* Lines 224-237 for one query type, from position i of nameservers_ips: each
\* list is sorted, then compared with the list of nameservers_ips[0].
RECURSIVE verify_loop(_, _, _, _, _)
verify_loop(d, ips, i, test, query_type) ==
  IF i > Len(ips) THEN [d |-> d, reports |-> <<>>]
  ELSE LET ns_ip == ips[i]
           d1 == [d EXCEPT ![ns_ip] = list_sort(@)]
           rest == verify_loop(d1, ips, i + 1, test, query_type)
       IN  [d |-> rest.d,
            reports |-> IF differs(d1[ns_ip], d1[reference(ips)])
                        THEN <<inconsistent_report(test, query_type, ns_ip,
                                                   reference(ips), d1)>>
                               \o rest.reports
                        ELSE rest.reports]

\* Lines 215-240 from position j of query_types: the answers with their lists
\* sorted, the reports in the order store_report gets them, and the types that
\* were skipped with 'No answers found' (lines 218-220).
RECURSIVE verify_all(_, _, _, _)
verify_all(ans, ips, test, j) ==
  IF j > Len(test.query_types) THEN [answers |-> ans, reports |-> <<>>, notes |-> <<>>]
  ELSE LET query_type == test.query_types[j]
           skip == no_answers(ans[query_type])
           r == IF skip
                THEN [d |-> ans[query_type], reports |-> <<>>]
                ELSE verify_loop([ans[query_type] EXCEPT ![reference(ips)] = list_sort(@)],
                                 ips, 1, test, query_type)
           rest == verify_all([ans EXCEPT ![query_type] = r.d], ips, test, j + 1)
       IN  [answers |-> rest.answers, reports |-> r.reports \o rest.reports,
            notes |-> IF skip THEN <<query_type>> \o rest.notes ELSE rest.notes]

\* ------------------------------------------------------ the stored result
\* Variant: the missing file is created without the results in it.
create_missing_empty(stored, name, ans) ==
  IF name \in DOMAIN stored THEN stored ELSE Put(stored, name, <<>>)

\* Lines 248-250: the file is created when it does not exist.
create_missing(stored, name, ans) ==
  IF name \in DOMAIN stored THEN stored ELSE Put(stored, name, json_dump(ans))

\* Variant: the stored result is taken as different every time.
results_differ_always(prev_results, ans) == TRUE

\* Line 256
results_differ(prev_results, ans) == prev_results # ans

drift_report(test, prev_results, ans) ==
  [kind |-> "drift", query_name |-> test.query_name, prev |-> prev_results,
   cur |-> ans]

\* Lines 262-263: os.rename to the name with the time; an existing file of that
\* name is replaced.
rename_old(archived, stored, name, t) == Put(archived, <<name, t>>, stored[name])

\* Variant: the new results are not written; the old text stays.
write_new_stale(stored, name, ans) == stored

\* Lines 265-266
write_new(stored, name, ans) == Put(stored, name, json_dump(ans))

\* Lines 215-269 of test_dns_query: the consistency check, then the comparison
\* with the stored result.  Every time.strftime of the step reads the same second.
check_and_diff ==
  /\ pc = "verify"
  /\ LET test == config.dns[testIdx]
         name == test.name
         v == verify_all(answers, nameservers_ips, test, 1)
         ans == v.answers
         existed == name \in DOMAIN baseline
         stored == create_missing(baseline, name, ans)
         prev_results == json_load(stored[name])
         drift == results_differ(prev_results, ans)
         all == IF drift THEN Append(v.reports, drift_report(test, prev_results, ans))
                ELSE v.reports
     IN  /\ answers' = ans
         /\ reports' = store_reports(reports, all, now)
         /\ emitted' = all
         /\ printed' = v.notes
         /\ archive' = IF drift THEN rename_old(archive, stored, name, now) ELSE archive
         /\ baseline' = IF drift THEN write_new(stored, name, ans) ELSE stored
         /\ hadBaseline' = existed
         /\ persisted' = persisted \cup
                           (IF ~existed \/ drift THEN {<<name, json_dump(ans)>>} ELSE {})
         /\ received' = [received EXCEPT !.rr =
                           [k \in DOMAIN answers \ DOMAIN NoAnswers |-> answers[k]]]
         /\ pc' = "tested"
  /\ lastKind' = "none"
  /\ lastA' = NoOutcome
  /\ UNCHANGED <<yaml, config, error, testIdx, nsIdx, attempts, nameservers_ips, ti, ai,
                 now, runs, probed, nqueries, sent, sink>>

\* ------------------------------------------- store_report, line by line
\* Variant: the name is taken without looking for a file of that name.
fname_exists_never(rfiles, f) == FALSE

\* Line 38: os.path.exists(fname)
fname_exists(rfiles, f) == f \in DOMAIN rfiles

\* store_report(details) is called, details being the text of the call-th
\* report: lines 35-37.
store_report_call ==
  /\ pc = "caller"
  /\ details < MaxReports
  /\ details' = details + 1
  /\ fname' = <<now, -1>>
  /\ seq' = 0
  /\ pc' = "store_report"
  /\ UNCHANGED <<yaml, config, error, testIdx, nsIdx, attempts, nameservers_ips,
                 answers, ti, ai, files, now, runs, history>>

\* Lines 38-40: the name exists, so the next one is made from the time of now
\* and seq.
store_report_loop ==
  /\ pc = "store_report"
  /\ fname_exists(reports, fname)
  /\ fname' = <<now, seq>>
  /\ seq' = seq + 1
  /\ UNCHANGED <<yaml, progVars, files, now, runs, history, details>>

\* Lines 38, 43-44: the name does not exist; the file is written.
store_report_write ==
  /\ pc = "store_report"
  /\ ~fname_exists(reports, fname)
  /\ reports' = Put(reports, fname, details)
  /\ pc' = "caller"
  /\ UNCHANGED <<yaml, config, error, testIdx, nsIdx, attempts, nameservers_ips,
                 answers, ti, ai, baseline, archive, now, runs, history, sink>>

\* ------------------------------------------------------- the environment
\* A second passes.
Tick ==
  /\ now < MaxClock
  /\ now' = now + 1
  /\ UNCHANGED <<yaml, progVars, files, runs, history, sink>>

\* main() is started again in the same directory with the same configuration
\* file; the files of the earlier invocations are there.
Invoke ==
  /\ pc = "exit"
  /\ runs < MaxRuns
  /\ runs' = runs + 1
  /\ config' = yaml
  /\ pc' = "main"
  /\ error' = "none"
  /\ testIdx' = 0
  /\ nsIdx' = 0
  /\ attempts' = 0
  /\ nameservers_ips' = <<>>
  /\ answers' = NoAnswers
  /\ ti' = 0
  /\ ai' = 0
  /\ probed' = <<>>
  /\ nqueries' = 0
  /\ sent' = <<>>
  /\ lastKind' = "none"
  /\ received' = NoReceived
  /\ emitted' = <<>>
  /\ hadBaseline' = FALSE
  /\ lastA' = NoOutcome
  /\ printed' = <<>>
  /\ UNCHANGED <<yaml, files, now, persisted, sink>>

\* ----------------------------------------------------- the specifications
ResolverLists == SeqsUpTo(Resolvers, MaxResolvers)
HostLists == DistinctSeqs(Hosts)
TypeLists == {<<"A">>, <<"A", "MX">>, <<"MX", "A">>}

Config(resolvers, dns) == [resolvers |-> resolvers, dns |-> dns, tested_resolver |-> None]

\* One invocation: any resolver list with one test over one nameserver; one
\* resolver with one test over any nameserver list and type list; two tests.
Configs ==
  {Config(r, <<Test("t1", "query", <<1>>, <<"A">>)>>) : r \in ResolverLists}
  \cup {Config(<<R1>>, <<Test("t1", "query", h, t)>>) : h \in HostLists, t \in TypeLists}
  \cup {Config(<<R2>>, <<Test("t1", k, <<1>>, <<"A">>), Test("t2", "query", <<2>>, <<"A">>)>>) :
          k \in {"query", "zone"}}

\* Repeated invocations: one test over one nameserver and one type.
RunConfigs == {Config(<<R1>>, <<Test("t1", "query", <<1>>, <<"A">>)>>)}

InitFrom(cfgs, start, existing) ==
  /\ yaml \in cfgs
  /\ config = yaml
  /\ pc = start
  /\ error = "none"
  /\ testIdx = 0
  /\ nsIdx = 0
  /\ attempts = 0
  /\ nameservers_ips = <<>>
  /\ answers = NoAnswers
  /\ ti = 0
  /\ ai = 0
  /\ baseline = EmptyDict
  /\ archive = EmptyDict
  /\ reports \in existing
  /\ now = 0
  /\ runs = 1
  /\ probed = <<>>
  /\ nqueries = 0
  /\ sent = <<>>
  /\ lastKind = "none"
  /\ received = NoReceived
  /\ emitted = <<>>
  /\ hadBaseline = FALSE
  /\ persisted = {}
  /\ lastA = NoOutcome
  /\ printed = <<>>
  /\ fname = NoName
  /\ seq = 0
  /\ details = 0

InitWith(cfgs) == InitFrom(cfgs, "main", {EmptyDict})

\* The report files a call of store_report can find: any set of names of the
\* seconds of the clock, without suffix or with a suffix up to MaxSeq.
ReportNames == (0..MaxClock) \X (-1..MaxSeq)
ExistingReports == {[f \in S |-> 0] : S \in SUBSET ReportNames}

Init == InitWith(Configs)
InitStore == InitFrom(RunConfigs, "caller", ExistingReports)
InitRuns == InitWith(RunConfigs)

Next ==
  \/ test_all_resolvers
  \/ run
  \/ name2ip
  \/ fanout_query
  \/ check_and_diff
  \/ Tick

NextRuns == Next \/ Invoke

NextStore ==
  \/ store_report_call
  \/ store_report_loop
  \/ store_report_write
  \/ Tick

Spec == Init /\ [][Next]_vars
SpecRuns == InitRuns /\ [][NextRuns]_vars
\* store_report is straight-line code of one process: once called, its next
\* line is executed.
SpecStore ==
  InitStore /\ [][NextStore]_vars /\ WF_vars(store_report_loop \/ store_report_write)

\* ============================================================ properties
CurrentTest == config.dns[testIdx]
BaseKeys == DOMAIN NoAnswers
TypeKeys(ans) == DOMAIN ans \ BaseKeys
NoDuplicates(s) == \A i, j \in DOMAIN s : i # j => s[i] # s[j]
Count(s, P(_)) == Cardinality({i \in DOMAIN s : P(s[i])})
NoDrift(rs) == \A i \in DOMAIN rs : rs[i].kind # "drift"
FilesEmpty == baseline = EmptyDict /\ archive = EmptyDict /\ reports = EmptyDict

C2_NoResolverAborts ==
  (pc # "main" /\ \A i \in DOMAIN probed : ~probed[i][2]) =>
    /\ pc = "exit"
    /\ error = "NoWorkingResolver"
    /\ testIdx = 0
    /\ nqueries = 0
    /\ sent = <<>>
    /\ FilesEmpty

\* Selection over an empty resolver list has failed.
C2_Witness ==
  /\ pc = "exit"
  /\ error = "NoWorkingResolver"
  /\ yaml.resolvers = <<>>
  /\ yaml.dns # <<>>

\* C3: when every attempt of name2ip ended in a protocol error, at most 10
\* queries were sent and name2ip fails with the no-record-found error, whatever
\* the active resolver's dnssec flag is.
C3_RetryBound ==
  (pc = "exit" /\ nsIdx > 0 /\ attempts = 0) =>
    /\ nqueries <= Attempts
    /\ error = "NoARecord"

\* C4: no address appears twice in the fan-out list or in the address list of
\* the answers, and no (record type, address) pair is queried twice.
C4_FanoutDeduplicated ==
  pc \in {"query", "verify", "tested"} =>
    /\ NoDuplicates(nameservers_ips)
    /\ NoDuplicates(answers.nameservers_ips.ips)
    /\ NoDuplicates(sent)

\* C5: a fan-out query that ends in a protocol error leaves the list of its
\* (record type, address) pair empty and every other list as it was, raises
\* nothing, and the loops go on: to the next pair, or after the last pair, with
\* every pair queried, to the consistency check.
C5_QueryErrorAbsorbed ==
  [][(pc = "query" /\ Len(sent') = Len(sent) + 1 /\ lastKind' = "DNSException") =>
       LET query_type == CurrentTest.query_types[ti]
           ns_ip == nameservers_ips[ai]
           lastAddr == ai = Len(nameservers_ips)
           last == lastAddr /\ ti = Len(CurrentTest.query_types)
       IN  /\ answers'[query_type][ns_ip] = <<>>
           /\ \A k \in TypeKeys(answers) : \A a \in DOMAIN answers[k] :
                <<k, a>> # <<query_type, ns_ip>> =>
                  /\ k \in DOMAIN answers'
                  /\ a \in DOMAIN answers'[k]
                  /\ answers'[k][a] = answers[k][a]
           /\ error' = "none"
           /\ pc' = IF last THEN "verify" ELSE "query"
           /\ ~last => <<ti', ai'>> = IF lastAddr THEN <<ti + 1, 1>> ELSE <<ti, ai + 1>>
           /\ last => Len(sent') = Len(CurrentTest.query_types) * Len(nameservers_ips)
    ]_vars

\* The last query of a test ended in a protocol error and the test is at the
\* consistency check, with a record kept for another pair.
C5_Witness ==
  /\ pc = "verify"
  /\ lastKind = "DNSException"
  /\ \E k \in TypeKeys(answers) : \E a \in DOMAIN answers[k] : answers[k][a] # <<>>

\* C6: when a test has finished, for every record type T and fan-out address X:
\* exactly one report names T and X if the sorted list of X differs from the
\* sorted list of the reference address, and that report holds both lists; no
\* report names T and X if the lists are equal.
C6_MismatchCompleteness ==
  pc = "tested" =>
    \A T \in TypeKeys(answers) : \A X \in DOMAIN answers[T] :
      LET Y == nameservers_ips[1]
          names(r) == r.kind = "inconsistent" /\ r.query_type = T /\ r.ns_ip = X
          full(r) == names(r) /\ r.reference = Y /\ r.expected = answers[T][Y]
                       /\ r.got = answers[T][X]
      IN  IF answers[T][X] # answers[T][Y]
          THEN Count(emitted, names) = 1 /\ Count(emitted, full) = 1
          ELSE Count(emitted, names) = 0

\* C7: a test that found no stored result for its name leaves its answers as
\* the stored result and produces no drift report, whatever the answers are.
C7_FirstRunNoDrift ==
  (pc = "tested" /\ ~hadBaseline) =>
    /\ CurrentTest.name \in DOMAIN baseline
    /\ json_load(baseline[CurrentTest.name]) = answers
    /\ NoDrift(emitted)

\* A first run whose answers disagree across the nameservers and hold an empty
\* list.
C7_Witness ==
  /\ pc = "tested"
  /\ ~hadBaseline
  /\ emitted # <<>>
  /\ \E k \in TypeKeys(answers) : \E a \in DOMAIN answers[k] : answers[k][a] = <<>>

SameUpToOrder(names, ips, raw, prev) ==
  /\ DOMAIN prev = DOMAIN raw
  /\ SeqToBag(prev.nameservers.names) = SeqToBag(names)
  /\ SeqToBag(prev.nameservers_ips.ips) = SeqToBag(ips)
  /\ \A k \in TypeKeys(raw) :
       /\ DOMAIN prev[k] = DOMAIN raw[k]
       /\ \A a \in DOMAIN raw[k] : SeqToBag(prev[k][a]) = SeqToBag(raw[k][a])

\* C9: when the answers of a test differ from the stored result in order only,
\* the comparison step reports no drift and leaves the stored result and the
\* archives as they are.
C9_DiffSymmetry ==
  [][(/\ pc = "verify"
      /\ pc' = "tested"
      /\ CurrentTest.name \in DOMAIN baseline
      /\ SameUpToOrder(received.names, received.ips, answers,
                       json_load(baseline[CurrentTest.name])))
       => /\ NoDrift(emitted')
          /\ baseline' = baseline
          /\ archive' = archive
    ]_vars

\* A later run matched the stored result although addresses and records
\* arrived out of order.
C9_Witness ==
  /\ pc = "tested"
  /\ hadBaseline
  /\ NoDrift(emitted)
  /\ ~IsSorted(received.ips)
  /\ \E k \in TypeKeys(answers) : \E a \in DOMAIN answers[k] :
       ~IsSorted(received.rr[k][a])

\* C10: the answers of a finished test are the sorted arrangement of what was
\* received: the names of the test sorted, the addresses of all resolutions
\* sorted, and for every record type and address the sorted records of the
\* response; so they do not depend on any order of arrival or of configuration.
C10_Determinism ==
  pc = "tested" =>
    /\ DOMAIN answers = BaseKeys \cup Range(CurrentTest.query_types)
    /\ IsSorted(answers.nameservers.names)
    /\ SeqToBag(answers.nameservers.names)
         = SeqToBag(yaml.dns[testIdx].nameservers)
    /\ IsSorted(answers.nameservers_ips.ips)
    /\ SeqToBag(answers.nameservers_ips.ips) = SeqToBag(received.ips)
    /\ \A k \in TypeKeys(answers) :
         /\ DOMAIN answers[k] = Range(received.ips)
         /\ \A a \in DOMAIN answers[k] :
              /\ IsSorted(answers[k][a])
              /\ SeqToBag(answers[k][a]) = SeqToBag(received.rr[k][a])

\* A finished test whose names, addresses and records all arrived out of order.
C10_Witness ==
  /\ pc = "tested"
  /\ ~IsSorted(yaml.dns[testIdx].nameservers)
  /\ ~IsSorted(received.ips)
  /\ Len(CurrentTest.query_types) = 2
  /\ \E k \in TypeKeys(answers) : \E a \in DOMAIN answers[k] :
       ~IsSorted(received.rr[k][a])

\* C11: when a nameserver of a test uses up every attempt without resolving,
\* only that test ends: the tests configured after it are still run, so the
\* program never stops on such a failure while a later test is left.
C11_LaterTestsRun ==
  (pc = "exit" /\ error # "none" /\ nsIdx > 0 /\ attempts = 0)
    => testIdx = Len(config.dns)

\* C12: a finished test leaves its results as the stored result of its name;
\* and when a stored result existed and was not equal to the results, exactly
\* one drift report was stored, with the old stored result as the previous
\* and the results as the current side, the old text is in the archive under
\* the name with the time, and the stored text is the dump of the results.
C12_DriftRotation ==
  [][(pc = "verify" /\ pc' = "tested") =>
       LET name == CurrentTest.name
           drifts == {i \in DOMAIN emitted' : emitted'[i].kind = "drift"}
       IN  /\ name \in DOMAIN baseline'
           /\ json_load(baseline'[name]) = answers'
           /\ (name \in DOMAIN baseline /\ json_load(baseline[name]) # answers')
                => /\ Cardinality(drifts) = 1
                   /\ \A i \in drifts :
                        /\ emitted'[i].prev = json_load(baseline[name])
                        /\ emitted'[i].cur = answers'
                        /\ \E f \in DOMAIN reports' \ DOMAIN reports :
                             reports'[f] = emitted'[i]
                   /\ <<name, now>> \in DOMAIN archive'
                   /\ archive'[<<name, now>>] = baseline[name]
                   /\ baseline'[name] = json_dump(answers')
    ]_vars

\* A later run found a stored result that differed: it reported the drift,
\* archived the old text and stored the new results.
C12_Witness ==
  /\ pc = "tested"
  /\ runs >= 2
  /\ hadBaseline
  /\ ~NoDrift(emitted)
  /\ <<CurrentTest.name, now>> \in DOMAIN archive
  /\ json_load(archive[<<CurrentTest.name, now>>]) # answers
  /\ json_load(baseline[CurrentTest.name]) = answers

\* C13: in a finished test, a record type for which no address returned any
\* record was skipped with the 'No answers found' note and has no
\* inconsistency report.
C13_EmptyTypeSkipped ==
  pc = "tested" =>
    \A k \in TypeKeys(answers) :
      (\A a \in DOMAIN answers[k] : answers[k][a] = <<>>)
        => /\ k \in Range(printed)
           /\ \A i \in DOMAIN emitted :
                emitted[i].kind = "inconsistent" => emitted[i].query_type # k

\* C14: a name2ip query answered with at least one A record ends the call in
\* that step, whatever attempts are left: no error, no further query for the
\* name, and the addresses added to the list are the A records of that
\* response, in its order.
C14_SuccessReturns ==
  [][(/\ pc = "name2ip"
      /\ now' = now
      /\ lastA'.kind = "response"
      /\ lastA'.a # <<>>)
       => /\ error' = "none"
          /\ nqueries' = 0
          /\ \/ /\ pc' = "name2ip"
                /\ nsIdx' = nsIdx + 1
                /\ attempts' = Attempts
                /\ nameservers_ips' = nameservers_ips \o lastA'.a
             \/ /\ pc' \in {"query", "verify"}
                /\ nsIdx' = 0
                /\ received'.ips = nameservers_ips \o lastA'.a
    ]_vars

\* The first of two names was answered with two A records and the call
\* returned exactly them: the second name is next.
C14_Witness ==
  /\ pc = "name2ip"
  /\ nsIdx = 2
  /\ nqueries = 0
  /\ lastA.kind = "response"
  /\ Len(lastA.a) = 2
  /\ nameservers_ips = lastA.a

\* C15: every call of store_report writes one new file and leaves every file
\* that was there as it was: the name is the one the call made last, no file
\* had it, it carries a time the call read and either no suffix or a suffix
\* below seq, a suffix only when a file without suffix was found; and a call
\* that is looking for a free name comes to its end.
C15_FreshName ==
  /\ [][reports' # reports =>
          /\ fname \notin DOMAIN reports
          /\ DOMAIN reports' = DOMAIN reports \cup {fname}
          /\ reports'[fname] = details
          /\ \A g \in DOMAIN reports : reports'[g] = reports[g]
          /\ fname[1] \in 0..now
          /\ fname[2] \in -1..(seq - 1)
          /\ fname[2] >= 0 => \E t \in 0..now : <<t, -1>> \in DOMAIN reports
       ]_vars
  /\ (pc = "store_report") ~> (pc = "caller")

\* Three reports were written in a second for which files were already there:
\* the files found are as they were and the last report has the suffix after
\* theirs.
C15_Witness ==
  /\ pc = "caller"
  /\ details = MaxReports
  /\ \E t \in 0..MaxClock :
       /\ {<<t, n>> : n \in -1..(MaxSeq + 1)} \subseteq DOMAIN reports
       /\ reports[<<t, -1>>] = 0
       /\ reports[<<t, 0>>] = 0
       /\ reports[<<t, MaxSeq + 1>>] > 0

\* C16: name2ip sends another query only after a DNSException; a query that
\* ended in another exception, or in a response without an A record, is the
\* last of its call, and the call then fails with 'No A record found'.
C16_RetryOnlyProtocolError ==
  /\ (pc = "name2ip" /\ nqueries > 0) => lastA.kind = "DNSException"
  /\ (pc = "exit" /\ nsIdx > 0 /\ lastA.kind \in {"Exception", "response"})
       => error = "NoARecord"

\* C17: in a finished test every inconsistency report names the least address
\* of the fan-out as its reference, with the sorted list of that address as
\* expected and the sorted list of the reported address as got; and for every
\* record type an address is reported exactly when its sorted list is not the
\* one of the least address.  The least address is taken from the set of
\* addresses, so it is the same for every type and for every order of names.
C17_ReferenceFirstAddress ==
  (pc = "tested" /\ received.ips # <<>>) =>
    LET ips == Range(received.ips)
        first == CHOOSE a \in ips : \A b \in ips : a <= b
    IN  /\ \A i \in DOMAIN emitted :
             emitted[i].kind = "inconsistent" =>
               /\ emitted[i].reference = first
               /\ emitted[i].ns_ip \in ips \ {first}
               /\ emitted[i].expected = answers[emitted[i].query_type][first]
               /\ emitted[i].got = answers[emitted[i].query_type][emitted[i].ns_ip]
        /\ \A k \in TypeKeys(answers) : \A x \in ips :
             (answers[k][x] # answers[k][first])
               <=> \E i \in DOMAIN emitted :
                     /\ emitted[i].kind = "inconsistent"
                     /\ emitted[i].query_type = k
                     /\ emitted[i].ns_ip = x

\* The names were configured out of order and the least address was not the
\* first to arrive; both record types were reported against it.
C17_Witness ==
  /\ pc = "tested"
  /\ ~IsSorted(yaml.dns[testIdx].nameservers)
  /\ received.ips = <<2, 1>>
  /\ \A k \in {"A", "MX"} :
       \E i \in DOMAIN emitted :
         /\ emitted[i].kind = "inconsistent"
         /\ emitted[i].query_type = k
         /\ emitted[i].reference = 1
         /\ emitted[i].ns_ip = 2

\* C18: from the start of a test to the end of its resolutions no file is
\* written, renamed or created, no fan-out query is sent and no report is
\* made; and a name2ip query without an A record is either followed by
\* another query for the same name or ends the test with an error and
\* without results.
C18_FailedResolutionNoEffect ==
  [][(pc = "name2ip" \/ pc' = "name2ip") =>
       /\ baseline' = baseline
       /\ archive' = archive
       /\ reports' = reports
       /\ sent' = <<>>
       /\ emitted' = <<>>
       /\ (pc = "name2ip" /\ now' = now /\ lastA'.a = <<>>) =>
            \/ /\ pc' = "name2ip"
               /\ nsIdx' = nsIdx
               /\ nqueries' = nqueries + 1
            \/ /\ pc' = "exit"
               /\ error' # "none"
               /\ answers' = NoAnswers
    ]_vars

\* The second test of a run failed in its resolution: it sent no fan-out query
\* and the stored result of the first test is there.
C18_Witness ==
  /\ pc = "exit"
  /\ error # "none"
  /\ testIdx = 2
  /\ nsIdx = 1
  /\ baseline # EmptyDict
  /\ sent = <<>>

\* C19: when the stored result of the name exists and loads to the results of
\* the test, the step stores no drift report and leaves the stored results
\* and the archive as they are.
C19_UnchangedBaselineKept ==
  [][(/\ pc = "verify"
      /\ pc' = "tested"
      /\ CurrentTest.name \in DOMAIN baseline
      /\ json_load(baseline[CurrentTest.name]) = answers')
       => /\ NoDrift(emitted')
          /\ baseline' = baseline
          /\ archive' = archive
          /\ \A f \in DOMAIN reports' : f \in DOMAIN reports \/ reports'[f].kind # "drift"
    ]_vars

\* After a run that archived a stored result, a later run found the stored
\* result equal to its results.
C19_Witness ==
  /\ pc = "tested"
  /\ runs = MaxRuns
  /\ hadBaseline
  /\ NoDrift(emitted)
  /\ archive # EmptyDict
  /\ json_load(baseline[CurrentTest.name]) = answers

\* C20: once the resolver is selected, nothing changes the configuration: the
\* nameservers of every test in content and order, its record types, name and
\* transport, and the selected resolver.
C20_InputsUnchanged ==
  [][pc # "main" => config' = config]_vars

====
